---- MODULE Spec2Model ----
(***************************************************************************)
(* Command Queue & Dispatcher of the telemetry relay (the server module):  *)
(* the DeviceCommandState, the FIFO queue of PendingCommands and the       *)
(* registry of parked long-poll requests, with the HTTP handlers that act  *)
(* on them.  Every handler runs to completion on the event loop, so each   *)
(* handler is one atomic action.                                           *)
(*                                                                         *)
(* The body a handler sends to a device in a step is recorded in `last`.    *)
(* A long-poll request that parks gets a slot in Req, and `responses`      *)
(* keeps the marker of every body its res has sent.                        *)
(*                                                                         *)
(* The Sensor State Store (latestData, changeThresholds) with its handlers *)
(* and the dashboard's delta polling is the second part of the module.     *)
(* No handler of one part reads or writes the state of the other, so each  *)
(* part has its own specification: Spec for the commands, SpecData for the *)
(* readings with the clock and the dashboard, SpecStore for the readings   *)
(* and the thresholds within one millisecond.  SpecOwnership runs the two  *)
(* parts side by side, the dashboard's requests included; SpecTyped is the *)
(* commands with boolean bodies only and no clearPendingCommands.          *)
(***************************************************************************)
EXTENDS Integers, Sequences, FiniteSets, TLC

\* Bounds of the model.
MaxWaiters == 1       \* long-poll requests that park in a run
MaxCommands == 2      \* PendingCommands built in a run
MaxTime == 2          \* milliseconds the clock runs through

VARIABLES
    deviceCommands,    \* let deviceCommands = { buzzer, led }
    pendingCommands,   \* let pendingCommands = []
    commandListeners,  \* let commandListeners = []  (a listener is named by its res)
    responses,         \* per parked request: markers of the bodies its res has sent
    jsonErrors,        \* per parked request: res.json calls that threw (headers sent)
    timer,             \* per parked request: "armed" while its idle timer runs,
                       \* "closed" once its connection has closed
    nextReq,           \* the slot of the next request to park
    nextId,            \* the id of the next PendingCommand
    delivered,         \* per command id: how often it was sent to a client
    running,           \* FALSE once process.exit has run
    last               \* the handler that ran last and what it answered

VARIABLES
    latestData,        \* let latestData = { ... }: null or { value, timestamp }
    changeThresholds,  \* const changeThresholds = { ... }
    now,               \* the clock new Date() reads, in milliseconds
    lastUpdate,        \* the dashboard's lastUpdate state
    updatedSince,      \* the fields updated since the response was generated
                       \* whose timestamp the dashboard holds in lastUpdate
    lastData           \* the data handler that ran last and what it answered

commandVars == <<deviceCommands, pendingCommands, commandListeners, responses,
                 jsonErrors, timer, nextReq, nextId, delivered, last>>

dataVars == <<latestData, changeThresholds, now, lastUpdate, updatedSince,
              lastData>>

vars == <<deviceCommands, pendingCommands, commandListeners, responses,
          jsonErrors, timer, nextReq, nextId, delivered, running, last,
          latestData, changeThresholds, now, lastUpdate, updatedSince, lastData>>

Req == 1..MaxWaiters

CommandIds == 1..MaxCommands

Fields == {"buzzer", "led"}

\* Values a JSON body can carry in a command field: absent, the two booleans,
\* and a value of another type (the string "on").
JsValues == {"undefined", "true", "false", "on"}

TypeofBoolean(v) == v \in {"true", "false"}

\* The timeout query strings tried, and what parseInt makes of them.
TimeoutQueries == {"", "5000", "0", "-1", "abc"}

NaN == [nan |-> TRUE, n |-> 0]

Num(n) == [nan |-> FALSE, n |-> n]

ParseInt(q) ==
    CASE q = "5000" -> Num(5000)
      [] q = "0"    -> Num(0)
      [] q = "-1"   -> Num(0 - 1)
      [] OTHER      -> NaN

DefaultTimeout == 30000

\* req.query.timeout ? parseInt(req.query.timeout) : 30000
ParseTimeout(q) == IF q # "" THEN ParseInt(q) ELSE Num(DefaultTimeout)

\* res.setTimeout(msecs, cb) hands msecs to socket.setTimeout, which throws
\* ERR_OUT_OF_RANGE unless msecs is a finite number >= 0.
SetTimeoutThrows(t) == t.nan \/ t.n < 0

\* socket.setTimeout(0) disables the idle timer; a positive value arms it.
TimerAfterSetTimeout(t) ==
    IF SetTimeoutThrows(t) \/ t.n = 0 THEN "none" ELSE "armed"

EmptyObject == [k \in {} |-> "false"]

\* A response body: its marker, the command id (0 for a body that carries
\* none) and its commands object.
Body(kind, id, commands) == [kind |-> kind, commandId |-> id, commands |-> commands]

NoBody == Body("none", 0, EmptyObject)

HeadersSent(resps, r) == resps[r] # <<>>

\* res.json(body) on the res of parked request r: sends the body, or throws
\* ERR_HTTP_HEADERS_SENT when the response was sent before.
ResJson(resps, r, body) ==
    IF HeadersSent(resps, r) THEN resps ELSE [resps EXCEPT ![r] = <<body.kind>>]

ResJsonErrors(errs, resps, r) ==
    IF HeadersSent(resps, r) THEN [errs EXCEPT ![r] = @ + 1] ELSE errs

RECURSIVE JsonAll(_, _, _)
\* listeners.forEach(listener => { try { listener.res.json(body) } catch {} })
JsonAll(resps, listeners, body) ==
    IF listeners = <<>> THEN resps
    ELSE JsonAll(ResJson(resps, Head(listeners), body), Tail(listeners), body)

RECURSIVE JsonAllErrors(_, _, _)
JsonAllErrors(errs, resps, listeners) ==
    IF listeners = <<>> THEN errs
    ELSE JsonAllErrors(ResJsonErrors(errs, resps, Head(listeners)), resps,
                       Tail(listeners))

\* commandListeners.filter(l => l !== listener)
RECURSIVE Without(_, _)
Without(listeners, r) ==
    IF listeners = <<>> THEN <<>>
    ELSE IF Head(listeners) = r THEN Without(Tail(listeners), r)
         ELSE <<Head(listeners)>> \o Without(Tail(listeners), r)

Range(s) == {s[i] : i \in DOMAIN s}

\* The listeners of a sequence whose res has not answered yet.
Unanswered(resps, listeners) ==
    {r \in Range(listeners) : ~HeadersSent(resps, r)}

\* What `last` records of a step: the handler or callback that ran, the HTTP
\* status it answered its own request with (0: it answered nothing), the
\* updated flag of /api/deviceCommand, the count of /api/clearPendingCommands
\* and the body the step sent to devices (NoBody: it sent none).
Result(op, status, updated, count, body) ==
    [op |-> op, status |-> status, updated |-> updated, count |-> count,
     body |-> body]

----------------------------------------------------------------------------
\* Values of the sensor part.

\* A JavaScript value of a JSON body: its type, and its number or its string.
\* A number is counted in tenths, so that the thresholds 0.5 and 1 are the
\* whole numbers 5 and 10.  An ISO 8601 date string is kept apart from other
\* strings and carries the millisecond it denotes.
JsValue(type, num, str) == [type |-> type, num |-> num, str |-> str]

Undefined == JsValue("undefined", 0, "")

JsNull == JsValue("null", 0, "")

Number(n) == JsValue("number", n, "")

String(str) == JsValue("string", 0, str)

\* new Date(ms).toISOString()
ToISOString(ms) == JsValue("isodate", ms, "")

\* new Date(v).getTime()
NewDate(v) ==
    CASE v.type = "isodate" -> Num(v.num)
      [] v.type = "number"  -> Num(v.num)
      [] OTHER              -> NaN

\* if (v)
Truthy(v) ==
    CASE v.type = "undefined" -> FALSE
      [] v.type = "null"      -> FALSE
      [] v.type = "number"    -> v.num # 0
      [] v.type = "string"    -> v.str # ""
      [] OTHER                -> TRUE

Abs(x) == IF x < 0 THEN 0 - x ELSE x

\* The fields of latestData that are modelled: a numeric one and the
\* categorical one.
DataFields == {"heartrate", "movement"}

NumericFields == {"heartrate"}

\* The keys of changeThresholds that are modelled.
ThresholdFields == {"heartrate", "movement"}

\* The properties changeThresholds inherits from Object.prototype: for these
\* keys changeThresholds[key] is a function, not undefined.
ObjectPrototype == {"toString"}

validMovements == {String("sitting"), String("standing"), String("walking")}

\* The values a field of a POST /api/data body takes.
DataInputs ==
    {Undefined, JsNull, Number(0), Number(10), Number(20), Number(0 - 10),
     String("sitting"), String("walking")}

Bodies == [DataFields -> DataInputs]

\* The bodies with the third movement as well.
StoreBodies == [DataFields -> DataInputs \cup {String("standing")}]

\* The values a key of a POST /api/thresholds body takes.
ThresholdInputs ==
    {Undefined, Number(0), Number(10), Number(20), Number(0 - 10)}

\* The bodies of POST /api/thresholds with the heart rate threshold, the
\* movement threshold and a key that is no field of the store.
ThresholdBodies ==
    {newThresholds \in [ThresholdFields \cup ObjectPrototype -> ThresholdInputs] :
        /\ newThresholds["movement"] \in {Undefined, Number(20), Number(0 - 10)}
        /\ newThresholds["toString"] \in {Undefined, Number(10)}}

\* The body of POST /api/getSpecificData: its fields, an array or not.
JsArray(items) == [isArray |-> TRUE, items |-> items]

NotAnArray == [isArray |-> FALSE, items |-> <<>>]

FieldNames == DataFields \cup {"bogus"}

FieldsInputs ==
    {NotAnArray}
    \cup {JsArray(<<>>)}
    \cup {JsArray(<<f>>) : f \in FieldNames}
    \cup {JsArray(<<f, g>>) : f \in FieldNames, g \in FieldNames}

\* The lastUpdate values of a POST /api/getData body.
LastUpdateInputs ==
    {Undefined, JsNull, String("yesterday")}
    \cup {ToISOString(t) : t \in 0..MaxTime}

DataResult(op, status, data, fullUpdate, count, timestamp) ==
    [op |-> op, status |-> status, data |-> data, fullUpdate |-> fullUpdate,
     count |-> count, timestamp |-> timestamp]

\* changeThresholds.heartrate, 1
HeartrateThreshold == 10

\* changeThresholds.movement, 0.5
MovementThreshold == 5

Init ==
    /\ latestData = [f \in DataFields |-> JsNull]
    /\ changeThresholds = [f \in ThresholdFields |->
                               IF f = "heartrate" THEN HeartrateThreshold
                               ELSE MovementThreshold]
    /\ now = 1
    /\ lastUpdate = JsNull
    /\ updatedSince = {}
    /\ lastData = DataResult("init", 0, EmptyObject, FALSE, 0, JsNull)
    /\ deviceCommands = [buzzer |-> "false", led |-> "false"]
    /\ pendingCommands = <<>>
    /\ commandListeners = <<>>
    /\ responses = [r \in Req |-> <<>>]
    /\ jsonErrors = [r \in Req |-> 0]
    /\ timer = [r \in Req |-> "none"]
    /\ nextReq = 1
    /\ nextId = 1
    /\ delivered = [c \in CommandIds |-> [notified |-> 0, dequeued |-> 0]]
    /\ running = TRUE
    /\ last = Result("init", 0, FALSE, 0, NoBody)

----------------------------------------------------------------------------
\* POST /api/deviceCommand

BuzzerRejected(buzzer) == buzzer # "undefined" /\ ~TypeofBoolean(buzzer)

LedRejected(led) == led # "undefined" /\ ~TypeofBoolean(led)

\* The buzzer block without the comparison with the current value: every
\* boolean counts as a change.
BuzzerChangesUncompared(buzzer) ==
    /\ buzzer # "undefined"
    /\ TypeofBoolean(buzzer)

BuzzerChanges(buzzer) ==
    /\ buzzer # "undefined"
    /\ TypeofBoolean(buzzer)
    /\ deviceCommands.buzzer # buzzer

LedChanges(led) ==
    /\ led # "undefined"
    /\ TypeofBoolean(led)
    /\ deviceCommands.led # led

\* deviceCommands once the buzzer block has run.
AfterBuzzerBlock(buzzer) ==
    IF BuzzerChanges(buzzer) THEN [deviceCommands EXCEPT !.buzzer = buzzer]
    ELSE deviceCommands

\* The led block writing a copy of deviceCommands taken before the buzzer
\* block ran.
AfterLedBlockOnStaleCopy(buzzer, led) ==
    IF LedChanges(led) THEN [deviceCommands EXCEPT !.led = led]
    ELSE AfterBuzzerBlock(buzzer)

\* deviceCommands once the buzzer block and the led block have run.
AfterLedBlock(buzzer, led) ==
    IF LedChanges(led) THEN [AfterBuzzerBlock(buzzer) EXCEPT !.led = led]
    ELSE AfterBuzzerBlock(buzzer)

\* commandUpdate without the line commandUpdate.buzzer = buzzer.
CommandUpdateLedOnly(buzzer, led) ==
    IF LedChanges(led) THEN "led" :> led ELSE EmptyObject

CommandUpdate(buzzer, led) ==
    (IF BuzzerChanges(buzzer) THEN "buzzer" :> buzzer ELSE EmptyObject)
    @@ (IF LedChanges(led) THEN "led" :> led ELSE EmptyObject)

\* notifyCommandListeners without its last line, commandListeners = [].
NotifyCommandListenersKeepsRegistry(command) ==
    /\ responses' = JsonAll(responses, commandListeners,
                            Body("command", command.id, command.commands))
    /\ jsonErrors' = JsonAllErrors(jsonErrors, responses, commandListeners)
    /\ delivered' = [delivered EXCEPT ![command.id].notified =
                        @ + Cardinality(Unanswered(responses, commandListeners))]
    /\ UNCHANGED commandListeners

\* notifyCommandListeners(command)
NotifyCommandListeners(command) ==
    /\ responses' = JsonAll(responses, commandListeners,
                            Body("command", command.id, command.commands))
    /\ jsonErrors' = JsonAllErrors(jsonErrors, responses, commandListeners)
    /\ delivered' = [delivered EXCEPT ![command.id].notified =
                        @ + Cardinality(Unanswered(responses, commandListeners))]
    /\ commandListeners' = <<>>

SetCommand(buzzer, led) ==
    /\ running
    /\ IF buzzer = "undefined" /\ led = "undefined"
       THEN /\ last' = Result("SetCommand", 400, FALSE, 0, NoBody)
            /\ UNCHANGED <<deviceCommands, pendingCommands, commandListeners,
                           responses, jsonErrors, delivered, nextId>>
       ELSE IF BuzzerRejected(buzzer)
       THEN /\ last' = Result("SetCommand", 400, FALSE, 0, NoBody)
            /\ UNCHANGED <<deviceCommands, pendingCommands, commandListeners,
                           responses, jsonErrors, delivered, nextId>>
       ELSE IF LedRejected(led)
       THEN /\ deviceCommands' = AfterBuzzerBlock(buzzer)
            /\ last' = Result("SetCommand", 400, FALSE, 0, NoBody)
            /\ UNCHANGED <<pendingCommands, commandListeners, responses,
                           jsonErrors, delivered, nextId>>
       ELSE LET updated == BuzzerChanges(buzzer) \/ LedChanges(led)
                newCommand == [id |-> nextId,
                               commands |-> CommandUpdate(buzzer, led)]
            IN /\ updated => nextId <= MaxCommands
               /\ deviceCommands' = AfterLedBlock(buzzer, led)
               /\ IF updated
                  THEN /\ pendingCommands' = Append(pendingCommands, newCommand)
                       /\ NotifyCommandListeners(newCommand)
                       /\ nextId' = nextId + 1
                  ELSE UNCHANGED <<pendingCommands, commandListeners,
                                   responses, jsonErrors, delivered, nextId>>
               /\ last' = Result("SetCommand", 200, updated, 0,
                                 IF updated /\ Unanswered(responses, commandListeners) # {}
                                 THEN Body("command", newCommand.id, newCommand.commands)
                                 ELSE NoBody)
    /\ UNCHANGED <<timer, nextReq, running>>
    /\ UNCHANGED dataVars

----------------------------------------------------------------------------
\* GET /api/getDeviceCommand

\* The immediate branch with pop() in place of shift().
AnswerImmediatelyNewest ==
    /\ IF Len(pendingCommands) > 0
       THEN LET latestCommand == pendingCommands[Len(pendingCommands)]
            IN /\ pendingCommands' = SubSeq(pendingCommands, 1,
                                            Len(pendingCommands) - 1)
               /\ delivered' = [delivered EXCEPT ![latestCommand.id].dequeued = @ + 1]
               /\ last' = Result("GetDeviceCommand", 200, FALSE, 0,
                                 Body("immediate", latestCommand.id,
                                      latestCommand.commands))
       ELSE /\ last' = Result("GetDeviceCommand", 200, FALSE, 0,
                              Body("immediate", 0, deviceCommands))
            /\ UNCHANGED <<pendingCommands, delivered>>
    /\ UNCHANGED <<commandListeners, responses, jsonErrors, timer, nextReq>>

\* The immediate branch reading pendingCommands[0] without shift().
AnswerImmediatelyPeek ==
    /\ IF Len(pendingCommands) > 0
       THEN LET latestCommand == Head(pendingCommands)
            IN /\ delivered' = [delivered EXCEPT ![latestCommand.id].dequeued = @ + 1]
               /\ last' = Result("GetDeviceCommand", 200, FALSE, 0,
                                 Body("immediate", latestCommand.id,
                                      latestCommand.commands))
       ELSE /\ last' = Result("GetDeviceCommand", 200, FALSE, 0,
                              Body("immediate", 0, deviceCommands))
            /\ UNCHANGED delivered
    /\ UNCHANGED <<pendingCommands, commandListeners, responses, jsonErrors,
                   timer, nextReq>>

\* The branch taken when immediate is set or commands are pending: the
\* request is answered inside the handler.
AnswerImmediately ==
    /\ IF Len(pendingCommands) > 0
       THEN LET latestCommand == Head(pendingCommands)
            IN /\ pendingCommands' = Tail(pendingCommands)
               /\ delivered' = [delivered EXCEPT ![latestCommand.id].dequeued = @ + 1]
               /\ last' = Result("GetDeviceCommand", 200, FALSE, 0,
                                 Body("immediate", latestCommand.id,
                                      latestCommand.commands))
       ELSE /\ last' = Result("GetDeviceCommand", 200, FALSE, 0,
                              Body("immediate", 0, deviceCommands))
            /\ UNCHANGED <<pendingCommands, delivered>>
    /\ UNCHANGED <<commandListeners, responses, jsonErrors, timer, nextReq>>

\* The long-polling branch: push the listener, then res.setTimeout.  When
\* setTimeout throws, the handler's catch answers 500 (headers are not sent
\* yet) and the listener stays pushed.
ParkListener(timeout) ==
    /\ nextReq <= MaxWaiters
    /\ LET r == nextReq
       IN /\ commandListeners' = Append(commandListeners, r)
          /\ timer' = [timer EXCEPT ![r] = TimerAfterSetTimeout(timeout)]
          /\ IF SetTimeoutThrows(timeout)
             THEN /\ responses' = ResJson(responses, r, Body("error", 0, EmptyObject))
                  /\ last' = Result("GetDeviceCommand", 500, FALSE, 0,
                                    Body("error", 0, EmptyObject))
             ELSE /\ last' = Result("GetDeviceCommand", 0, FALSE, 0, NoBody)
                  /\ UNCHANGED responses
    /\ nextReq' = nextReq + 1
    /\ UNCHANGED <<pendingCommands, jsonErrors, delivered>>

GetDeviceCommand(immediate, q) ==
    /\ running
    /\ IF immediate \/ Len(pendingCommands) > 0
       THEN AnswerImmediately
       ELSE ParkListener(ParseTimeout(q))
    /\ UNCHANGED <<deviceCommands, nextId, running>>
    /\ UNCHANGED dataVars

\* fetchDeviceCommands of the dashboard: a GET of /api/getDeviceCommand with
\* no query, so without immediate and with the default timeout.
FetchDeviceCommands == GetDeviceCommand(FALSE, "")

\* The callback without the res.headersSent test.
TimeoutCallbackUnguarded(r) ==
    /\ commandListeners' = Without(commandListeners, r)
    /\ responses' = ResJson(responses, r, Body("timeout", 0, deviceCommands))
    /\ jsonErrors' = ResJsonErrors(jsonErrors, responses, r)
    /\ last' = Result("TimerExpiry", 0, FALSE, 0,
                      IF HeadersSent(responses, r) THEN NoBody
                      ELSE Body("timeout", 0, deviceCommands))

\* The callback without the removal of the listener from commandListeners.
TimeoutCallbackKeepsListener(r) ==
    /\ UNCHANGED commandListeners
    /\ IF ~HeadersSent(responses, r)
       THEN /\ responses' = ResJson(responses, r, Body("timeout", 0, deviceCommands))
            /\ last' = Result("TimerExpiry", 0, FALSE, 0,
                              Body("timeout", 0, deviceCommands))
       ELSE /\ last' = Result("TimerExpiry", 0, FALSE, 0, NoBody)
            /\ UNCHANGED responses
    /\ UNCHANGED jsonErrors

\* The callback given to res.setTimeout.
TimeoutCallback(r) ==
    /\ commandListeners' = Without(commandListeners, r)
    /\ IF ~HeadersSent(responses, r)
       THEN /\ responses' = ResJson(responses, r, Body("timeout", 0, deviceCommands))
            /\ last' = Result("TimerExpiry", 0, FALSE, 0,
                              Body("timeout", 0, deviceCommands))
       ELSE /\ last' = Result("TimerExpiry", 0, FALSE, 0, NoBody)
            /\ UNCHANGED responses
    /\ UNCHANGED jsonErrors

\* The idle timer of parked request r expires.
TimerExpiry(r) ==
    /\ running
    /\ timer[r] = "armed"
    /\ TimeoutCallback(r)
    /\ timer' = [timer EXCEPT ![r] = "none"]
    /\ UNCHANGED <<deviceCommands, pendingCommands, nextReq, nextId, delivered,
                   running>>
    /\ UNCHANGED dataVars

\* The client of parked request r drops the connection before any answer.
\* The handler registers no 'close' listener on req or res, so no code of the
\* server runs: the listener stays in commandListeners.  Node destroys the
\* socket, which clears its idle timer.
ConnectionClose(r) ==
    /\ running
    /\ r < nextReq
    /\ ~HeadersSent(responses, r)
    /\ timer[r] # "closed"
    /\ timer' = [timer EXCEPT ![r] = "closed"]
    /\ last' = Result("ConnectionClose", 0, FALSE, 0, NoBody)
    /\ UNCHANGED <<deviceCommands, pendingCommands, commandListeners, responses,
                   jsonErrors, nextReq, nextId, delivered, running>>
    /\ UNCHANGED dataVars

----------------------------------------------------------------------------
\* GET /api/pollDeviceCommand

\* The handler emptying the queue instead of shift()ing one command.
PollDeviceCommandDrain ==
    /\ running
    /\ IF Len(pendingCommands) > 0
       THEN LET latestCommand == Head(pendingCommands)
            IN /\ pendingCommands' = <<>>
               /\ delivered' = [delivered EXCEPT ![latestCommand.id].dequeued = @ + 1]
               /\ last' = Result("PollDeviceCommand", 200, FALSE, 0,
                                 Body("newCommands", latestCommand.id,
                                      latestCommand.commands))
       ELSE /\ last' = Result("PollDeviceCommand", 200, FALSE, 0,
                              Body("noNewCommands", 0, deviceCommands))
            /\ UNCHANGED <<pendingCommands, delivered>>
    /\ UNCHANGED <<deviceCommands, commandListeners, responses, jsonErrors,
                   timer, nextReq, nextId, running>>
    /\ UNCHANGED dataVars

PollDeviceCommand ==
    /\ running
    /\ IF Len(pendingCommands) > 0
       THEN LET latestCommand == Head(pendingCommands)
            IN /\ pendingCommands' = Tail(pendingCommands)
               /\ delivered' = [delivered EXCEPT ![latestCommand.id].dequeued = @ + 1]
               /\ last' = Result("PollDeviceCommand", 200, FALSE, 0,
                                 Body("newCommands", latestCommand.id,
                                      latestCommand.commands))
       ELSE /\ last' = Result("PollDeviceCommand", 200, FALSE, 0,
                              Body("noNewCommands", 0, deviceCommands))
            /\ UNCHANGED <<pendingCommands, delivered>>
    /\ UNCHANGED <<deviceCommands, commandListeners, responses, jsonErrors,
                   timer, nextReq, nextId, running>>
    /\ UNCHANGED dataVars

----------------------------------------------------------------------------
\* POST /api/clearPendingCommands

\* The handler reading pendingCommands.length after it has emptied the queue.
ClearPendingCommandsCountAfter ==
    /\ running
    /\ last' = Result("ClearPendingCommands", 200, FALSE, 0, NoBody)
    /\ pendingCommands' = <<>>
    /\ commandListeners' = <<>>
    /\ UNCHANGED <<deviceCommands, responses, jsonErrors, timer, nextReq, nextId,
                   delivered, running>>
    /\ UNCHANGED dataVars

\* The handler resetting the readings together with the queue.
ClearPendingCommandsResetsReadings ==
    /\ running
    /\ LET count == Len(pendingCommands)
       IN last' = Result("ClearPendingCommands", 200, FALSE, count, NoBody)
    /\ pendingCommands' = <<>>
    /\ commandListeners' = <<>>
    /\ latestData' = [f \in DataFields |-> JsNull]
    /\ UNCHANGED <<deviceCommands, responses, jsonErrors, timer, nextReq, nextId,
                   delivered, running>>
    /\ UNCHANGED <<changeThresholds, now, lastUpdate, updatedSince, lastData>>

ClearPendingCommands ==
    /\ running
    /\ LET count == Len(pendingCommands)
       IN last' = Result("ClearPendingCommands", 200, FALSE, count, NoBody)
    /\ pendingCommands' = <<>>
    /\ commandListeners' = <<>>
    /\ UNCHANGED <<deviceCommands, responses, jsonErrors, timer, nextReq, nextId,
                   delivered, running>>
    /\ UNCHANGED dataVars

----------------------------------------------------------------------------
\* gracefulShutdown, on SIGINT or SIGTERM

\* The signal handler exiting without the forEach over commandListeners.
GracefulShutdownNoNotify ==
    /\ running
    /\ running' = FALSE
    /\ last' = Result("GracefulShutdown", 0, FALSE, 0, NoBody)
    /\ UNCHANGED <<deviceCommands, pendingCommands, commandListeners, responses,
                   jsonErrors, timer, nextReq, nextId, delivered>>
    /\ UNCHANGED dataVars

GracefulShutdown ==
    /\ running
    /\ responses' = JsonAll(responses, commandListeners,
                            Body("shutdown", 0, deviceCommands))
    /\ jsonErrors' = JsonAllErrors(jsonErrors, responses, commandListeners)
    /\ running' = FALSE
    /\ last' = Result("GracefulShutdown", 0, FALSE, 0,
                      IF Unanswered(responses, commandListeners) # {}
                      THEN Body("shutdown", 0, deviceCommands) ELSE NoBody)
    /\ UNCHANGED <<deviceCommands, pendingCommands, commandListeners, timer,
                   nextReq, nextId, delivered>>
    /\ UNCHANGED dataVars

----------------------------------------------------------------------------
\* Sensor State Store: validation, change detection, POST /api/data

isValidNumber(value) == value.type = "number"

isValidMovement(value) == value \in validMovements

\* A validation that pushes no error.
validateSensorDataNone(data) == {}

\* The fields validateSensorData pushes an error for.
validateSensorData(data) ==
    {f \in DataFields :
        /\ data[f] # Undefined
        /\ IF f = "movement" THEN ~isValidMovement(data[f])
           ELSE ~isValidNumber(data[f]) \/ data[f].num < 0}

\* The detector without its first line, an unset old value counting as 0.
hasDataChangedNoFirstRule(sensorType, newValue, oldValue) ==
    IF newValue = Undefined \/ newValue = JsNull THEN FALSE
    ELSE IF newValue.type # "number" THEN newValue # oldValue
    ELSE Abs(newValue.num - oldValue.num) >= changeThresholds[sensorType]

\* The detector with > in place of >=.
hasDataChangedStrict(sensorType, newValue, oldValue) ==
    IF oldValue = Undefined \/ oldValue = JsNull THEN TRUE
    ELSE IF newValue = Undefined \/ newValue = JsNull THEN FALSE
    ELSE IF newValue.type # "number" \/ oldValue.type # "number"
    THEN newValue # oldValue
    ELSE Abs(newValue.num - oldValue.num) > changeThresholds[sensorType]

\* The detector testing newValue before oldValue.
hasDataChangedNewValueFirst(sensorType, newValue, oldValue) ==
    IF newValue = Undefined \/ newValue = JsNull THEN FALSE
    ELSE IF oldValue = Undefined \/ oldValue = JsNull THEN TRUE
    ELSE IF newValue.type # "number" \/ oldValue.type # "number"
    THEN newValue # oldValue
    ELSE Abs(newValue.num - oldValue.num) >= changeThresholds[sensorType]

\* The detector without its typeof branch: the difference of two strings is
\* NaN, and NaN >= threshold is false.
hasDataChangedNoTypeofBranch(sensorType, newValue, oldValue) ==
    IF oldValue = Undefined \/ oldValue = JsNull THEN TRUE
    ELSE IF newValue = Undefined \/ newValue = JsNull THEN FALSE
    ELSE IF newValue.type # "number" \/ oldValue.type # "number"
    THEN FALSE
    ELSE Abs(newValue.num - oldValue.num) >= changeThresholds[sensorType]

\* The detector without Math.abs: only a rise counts.
hasDataChangedRiseOnly(sensorType, newValue, oldValue) ==
    IF oldValue = Undefined \/ oldValue = JsNull THEN TRUE
    ELSE IF newValue = Undefined \/ newValue = JsNull THEN FALSE
    ELSE IF newValue.type # "number" \/ oldValue.type # "number"
    THEN newValue # oldValue
    ELSE newValue.num - oldValue.num >= changeThresholds[sensorType]

hasDataChanged(sensorType, newValue, oldValue) ==
    IF oldValue = Undefined \/ oldValue = JsNull THEN TRUE
    ELSE IF newValue = Undefined \/ newValue = JsNull THEN FALSE
    ELSE IF newValue.type # "number" \/ oldValue.type # "number"
    THEN newValue # oldValue
    ELSE Abs(newValue.num - oldValue.num) >= changeThresholds[sensorType]

\* latestData[key]?.value !== undefined ? latestData[key].value : latestData[key]
OldValue(key) ==
    IF latestData[key] # JsNull /\ latestData[key].value # Undefined
    THEN latestData[key].value
    ELSE latestData[key]

\* updateChangedFields writing every key it is given, changed or not.
ChangedKeysAll(newData) ==
    {key \in DOMAIN newData :
        newData[key] # Undefined /\ newData[key] # JsNull}

\* The keys of newData for which updateChangedFields writes latestData.
ChangedKeys(newData) ==
    {key \in DOMAIN newData :
        /\ newData[key] # Undefined
        /\ newData[key] # JsNull
        /\ hasDataChanged(key, newData[key], OldValue(key))}

\* updateChangedFields clearing the entry of a key whose value did not change.
updateChangedFieldsClearing(newData) ==
    [key \in DataFields |->
        IF key \in ChangedKeys(newData)
        THEN [value |-> newData[key], timestamp |-> ToISOString(now)]
        ELSE IF key \in DOMAIN newData THEN JsNull
        ELSE latestData[key]]

\* updateChangedFields writing an entry only while it is null.
updateChangedFieldsWriteOnce(newData) ==
    [key \in DataFields |->
        IF key \in ChangedKeys(newData) /\ latestData[key] = JsNull
        THEN [value |-> newData[key], timestamp |-> ToISOString(now)]
        ELSE latestData[key]]

\* latestData once updateChangedFields(newData) has run.
updateChangedFields(newData) ==
    [key \in DataFields |->
        IF key \in ChangedKeys(newData)
        THEN [value |-> newData[key], timestamp |-> ToISOString(now)]
        ELSE latestData[key]]

\* The object updateChangedFields returns (empty where the code returns null).
changedFields(newData) ==
    [key \in ChangedKeys(newData) |-> updateChangedFields(newData)[key]]

\* The fields of the body that are not undefined.
receivedData(body) == [f \in {g \in DataFields : body[g] # Undefined} |-> body[f]]

PostData(body) ==
    /\ running
    /\ IF validateSensorData(body) # {}
       THEN /\ lastData' = DataResult("PostData", 400,
                                      [errors |-> validateSensorData(body)],
                                      FALSE, 0, ToISOString(now))
            /\ UNCHANGED <<latestData, updatedSince>>
       ELSE IF DOMAIN receivedData(body) = {}
       THEN /\ lastData' = DataResult("PostData", 400, EmptyObject, FALSE, 0,
                                      ToISOString(now))
            /\ UNCHANGED <<latestData, updatedSince>>
       ELSE /\ latestData' = updateChangedFields(receivedData(body))
            /\ updatedSince' = updatedSince \cup ChangedKeys(receivedData(body))
            /\ lastData' = DataResult("PostData", 200,
                                      changedFields(receivedData(body)), FALSE, 0,
                                      ToISOString(now))
    /\ UNCHANGED <<changeThresholds, now, lastUpdate, running>>
    /\ UNCHANGED commandVars

----------------------------------------------------------------------------
\* POST /api/thresholds

\* The forEach without its test newThresholds[key] >= 0.
UpdatedThresholdsAnySign(newThresholds) ==
    {key \in DOMAIN newThresholds :
        /\ newThresholds[key] # Undefined
        /\ key \in DOMAIN changeThresholds \cup ObjectPrototype
        /\ isValidNumber(newThresholds[key])}

\* The keys of the body that pass the three tests of the forEach.  The first
\* test, changeThresholds[key] !== undefined, passes for the object's own keys
\* and for the properties it inherits.
UpdatedThresholds(newThresholds) ==
    {key \in DOMAIN newThresholds :
        /\ newThresholds[key] # Undefined
        /\ key \in DOMAIN changeThresholds \cup ObjectPrototype
        /\ isValidNumber(newThresholds[key])
        /\ newThresholds[key].num >= 0}

\* The assignment changeThresholds[key] = newThresholds[key] makes key an own
\* property of changeThresholds if it was none.
PostThresholds(newThresholds) ==
    /\ running
    /\ changeThresholds' =
          [key \in DOMAIN changeThresholds \cup UpdatedThresholds(newThresholds) |->
              IF key \in UpdatedThresholds(newThresholds)
              THEN newThresholds[key].num ELSE changeThresholds[key]]
    /\ lastData' = DataResult("PostThresholds", 200, EmptyObject, FALSE,
                              Cardinality(UpdatedThresholds(newThresholds)),
                              ToISOString(now))
    /\ UNCHANGED <<latestData, now, lastUpdate, updatedSince, running>>
    /\ UNCHANGED commandVars

----------------------------------------------------------------------------
\* POST /api/getData and GET /api/getData

\* The entries of latestData that are not null (every entry that is not null
\* is an object with a value).
currentData == [f \in {g \in DataFields : latestData[g] # JsNull} |-> latestData[f]]

\* The filter of the delta branch with >= in place of >.
changedSinceLastUpdateInclusive(lastUpdateDate) ==
    [f \in {g \in DataFields :
                /\ latestData[g] # JsNull
                /\ Truthy(latestData[g].timestamp)
                /\ NewDate(latestData[g].timestamp).n >= lastUpdateDate.n}
        |-> latestData[f]]

changedSinceLastUpdate(lastUpdateDate) ==
    [f \in {g \in DataFields :
                /\ latestData[g] # JsNull
                /\ Truthy(latestData[g].timestamp)
                /\ NewDate(latestData[g].timestamp).n > lastUpdateDate.n}
        |-> latestData[f]]

\* The delta answer with fullUpdate: false written as a constant.
DeltaResponseNeverFull(lastUpdateDate) ==
    DataResult("PostGetData", 200, changedSinceLastUpdate(lastUpdateDate),
               FALSE, 0, ToISOString(now))

\* The answer of the branch in which lastUpdate is a valid date.
DeltaResponse(lastUpdateDate) ==
    DataResult("PostGetData", 200, changedSinceLastUpdate(lastUpdateDate),
               DOMAIN changedSinceLastUpdate(lastUpdateDate) = {}, 0,
               ToISOString(now))

\* What POST /api/getData answers to a body with this lastUpdate.
PostGetDataResponse(lastUpdateIn) ==
    IF Truthy(lastUpdateIn)
    THEN IF NewDate(lastUpdateIn).nan
         THEN DataResult("PostGetData", 400, EmptyObject, FALSE, 0, ToISOString(now))
         ELSE DeltaResponse(NewDate(lastUpdateIn))
    ELSE DataResult("PostGetData", 200, currentData, TRUE, 0, ToISOString(now))

\* What GET /api/getData answers.
GetGetDataResponse ==
    DataResult("GetGetData", 200, currentData, TRUE, 0, ToISOString(now))

PostGetData(lastUpdateIn) ==
    /\ running
    /\ lastData' = PostGetDataResponse(lastUpdateIn)
    /\ UNCHANGED <<latestData, changeThresholds, now, lastUpdate, updatedSince,
                   running>>
    /\ UNCHANGED commandVars

GetGetData ==
    /\ running
    /\ lastData' = GetGetDataResponse
    /\ UNCHANGED <<latestData, changeThresholds, now, lastUpdate, updatedSince,
                   running>>
    /\ UNCHANGED commandVars

----------------------------------------------------------------------------
\* POST /api/getSpecificData

\* Object.keys(latestData)
validFields == DataFields

\* fields.filter(field => !validFields.includes(field))
invalidFields(fields) == SelectSeq(fields.items, LAMBDA field : field \notin validFields)

\* The entries of latestData the request names that are not null.
specificData(fields) ==
    [f \in {g \in Range(fields.items) : latestData[g] # JsNull} |-> latestData[f]]

\* The handler answering the fields it knows and passing over the others.
PostGetSpecificDataLenient(fields) ==
    /\ running
    /\ lastData' =
          IF ~fields.isArray
          THEN DataResult("PostGetSpecificData", 400, EmptyObject, FALSE, 0,
                          ToISOString(now))
          ELSE DataResult("PostGetSpecificData", 200,
                          specificData(JsArray(SelectSeq(fields.items,
                              LAMBDA field : field \in validFields))),
                          FALSE, 0, ToISOString(now))
    /\ UNCHANGED <<latestData, changeThresholds, now, lastUpdate, updatedSince,
                   running>>
    /\ UNCHANGED commandVars

PostGetSpecificData(fields) ==
    /\ running
    /\ lastData' =
          IF ~fields.isArray
          THEN DataResult("PostGetSpecificData", 400, EmptyObject, FALSE, 0,
                          ToISOString(now))
          ELSE IF Len(invalidFields(fields)) > 0
          THEN DataResult("PostGetSpecificData", 400,
                          [invalidFields |-> invalidFields(fields),
                           validFields |-> validFields],
                          FALSE, 0, ToISOString(now))
          ELSE DataResult("PostGetSpecificData", 200, specificData(fields),
                          FALSE, 0, ToISOString(now))
    /\ UNCHANGED <<latestData, changeThresholds, now, lastUpdate, updatedSince,
                   running>>
    /\ UNCHANGED commandVars

----------------------------------------------------------------------------
\* The dashboard

\* fetchData of the dashboard, with the handler that answers it: a POST with
\* the held lastUpdate when the fetch is incremental and lastUpdate is set, a
\* GET otherwise.  A non-empty answer replaces lastUpdate by its timestamp.
FetchData(isIncremental) ==
    /\ running
    /\ LET result == IF isIncremental /\ Truthy(lastUpdate)
                     THEN PostGetDataResponse(lastUpdate)
                     ELSE GetGetDataResponse
           answered == result.status = 200 /\ DOMAIN result.data # {}
       IN /\ lastData' = [result EXCEPT !.op = "FetchData"]
          /\ lastUpdate' = IF answered /\ Truthy(result.timestamp)
                           THEN result.timestamp ELSE lastUpdate
          /\ updatedSince' = IF answered THEN {} ELSE updatedSince
    /\ UNCHANGED <<latestData, changeThresholds, now, running>>
    /\ UNCHANGED commandVars

\* A millisecond passes.
Tick ==
    /\ running
    /\ now < MaxTime
    /\ now' = now + 1
    /\ UNCHANGED <<latestData, changeThresholds, lastUpdate, updatedSince,
                   lastData, running>>
    /\ UNCHANGED commandVars

----------------------------------------------------------------------------
Next ==
    \/ \E buzzer \in JsValues, led \in JsValues : SetCommand(buzzer, led)
    \/ \E immediate \in BOOLEAN, q \in TimeoutQueries :
           GetDeviceCommand(immediate, q)
    \/ \E r \in Req : TimerExpiry(r)
    \/ \E r \in Req : ConnectionClose(r)
    \/ PollDeviceCommand
    \/ ClearPendingCommands
    \/ GracefulShutdown

Spec == Init /\ [][Next]_vars

NextData ==
    \/ \E body \in Bodies : PostData(body)
    \/ \E newThresholds \in [NumericFields -> ThresholdInputs] :
           PostThresholds(newThresholds)
    \/ \E lastUpdateIn \in LastUpdateInputs : PostGetData(lastUpdateIn)
    \/ \E isIncremental \in BOOLEAN : FetchData(isIncremental)
    \/ Tick

SpecData == Init /\ [][NextData]_vars

\* The store and its thresholds within one millisecond, with every key of
\* the thresholds body and the two reading handlers.
NextStore ==
    \/ \E body \in StoreBodies : PostData(body)
    \/ \E newThresholds \in ThresholdBodies : PostThresholds(newThresholds)
    \/ \E fields \in FieldsInputs : PostGetSpecificData(fields)
    \/ GetGetData

SpecStore == Init /\ [][NextStore]_vars

\* The two parts of the server side by side: the handlers of the commands
\* and the handlers of the readings in every interleaving, each with a few
\* of its inputs.
NextOwnership ==
    \/ \E buzzer \in {"true", "false"} : SetCommand(buzzer, "undefined")
    \/ \E immediate \in BOOLEAN : GetDeviceCommand(immediate, "")
    \/ FetchDeviceCommands
    \/ \E r \in Req : TimerExpiry(r)
    \/ PollDeviceCommand
    \/ ClearPendingCommands
    \/ \E m \in {String("sitting"), String("walking")} :
           PostData([g \in DataFields |-> IF g = "movement" THEN m ELSE Undefined])
    \/ PostThresholds([f \in NumericFields |-> Number(20)])
    \/ PostGetData(Undefined)
    \/ PostGetSpecificData(JsArray(<<"movement">>))
    \/ GetGetData

SpecOwnership == Init /\ [][NextOwnership]_vars

\* The values of a field of a well-typed /api/deviceCommand body.
TypedValues == {v \in JsValues : v = "undefined" \/ TypeofBoolean(v)}

\* The commands with every /api/deviceCommand body well-typed and
\* /api/clearPendingCommands never called.
NextTyped ==
    \/ \E buzzer \in TypedValues, led \in TypedValues : SetCommand(buzzer, led)
    \/ \E immediate \in BOOLEAN, q \in TimeoutQueries :
           GetDeviceCommand(immediate, q)
    \/ \E r \in Req : TimerExpiry(r)
    \/ \E r \in Req : ConnectionClose(r)
    \/ PollDeviceCommand
    \/ GracefulShutdown

SpecTyped == Init /\ [][NextTyped]_vars

----------------------------------------------------------------------------
\* Properties of the command queue and the long-poll dispatcher.

ProgramState == <<deviceCommands, pendingCommands, commandListeners>>

\* The fields in which deviceCommands differs between two states, with their
\* new values.
ChangedFields(old, new) == [k \in {f \in Fields : old[f] # new[f]} |-> new[k]]

QueuedIds == {pendingCommands[i].id : i \in DOMAIN pendingCommands}

\* The requests that have parked so far.
Parked == {r \in Req : r < nextReq}

\* C1: once a PendingCommand has been delivered to a consumer (a poll, an
\* immediate long-poll or a notified waiting listener) it is no longer in the
\* pending queue, so that no later request can receive it again.
C1_DeliveredCommandLeavesQueue ==
    \A c \in QueuedIds :
        delivered[c].notified = 0 /\ delivered[c].dequeued = 0

\* C2: a parked long-poll request receives at most one response; resolution
\* by a new command and by timeout exclude each other: once its res has
\* answered, neither path calls res.json on it again.  (A request whose
\* setTimeout threw was answered 500 inside the handler and is not a
\* suspended request.)
C2_AtMostOneResponse ==
    \A r \in Req :
        /\ Len(responses[r]) <= 1
        /\ responses[r] # <<"error">> => jsonErrors[r] = 0

\* A waiter was answered by a command and its timer expired afterwards.
C2_Witness ==
    \E r \in Parked :
        /\ responses[r] = <<"command">>
        /\ last.op = "TimerExpiry"
        /\ last.body = NoBody
        /\ timer[r] = "none"

\* C3: every long-poll request that parked is resolved; none is left
\* unanswered when the process has exited.
C3_NoWaiterLeftUnanswered ==
    ~running => \A r \in Parked : responses[r] # <<>>

\* C4: when the timer of a parked request that no command has resolved
\* expires, the request is removed from the registry and answered with the
\* timeout marker and the DeviceCommandState of the moment of expiry.
C4_TimeoutAnswersSnapshot ==
    [][\A r \in Req :
          (timer[r] = "armed" /\ timer'[r] = "none" /\ responses[r] = <<>>)
          => /\ responses'[r] = <<"timeout">>
             /\ last'.body = Body("timeout", 0, deviceCommands)
             /\ deviceCommands' = deviceCommands
             /\ r \notin Range(commandListeners')]_vars

\* A request timed out with a snapshot that differs from the state it parked
\* in (deviceCommands changed while it was parked).
C4_Witness ==
    \E r \in Parked :
        /\ responses[r] = <<"timeout">>
        /\ last.op = "TimerExpiry"
        /\ last.body = Body("timeout", 0, deviceCommands)
        /\ deviceCommands.buzzer = "true"

\* C5: when a SetCommand call changes at least one field while waiters are
\* registered, every registered waiter is answered with the just-built
\* PendingCommand and the registry is empty after the call.
C5_ChangeNotifiesAllWaiters ==
    [][(deviceCommands' # deviceCommands /\ commandListeners # <<>>)
       => /\ commandListeners' = <<>>
          /\ \A r \in Range(commandListeners) : responses'[r] = <<"command">>
          /\ last'.body = Body("command", nextId,
                               ChangedFields(deviceCommands, deviceCommands'))]_vars

\* C6: every change of DeviceCommandState appends exactly one PendingCommand
\* whose commands are exactly the changed fields with their new values.
C6_ChangeEnqueuesDelta ==
    [][deviceCommands' # deviceCommands
       => /\ pendingCommands' = Append(pendingCommands,
                 [id |-> nextId,
                  commands |-> ChangedFields(deviceCommands, deviceCommands')])]_vars

\* Every provided field of the call equals the current value (and at least
\* one field is provided).
AlreadyCurrent(buzzer, led) ==
    /\ buzzer # "undefined" \/ led # "undefined"
    /\ buzzer # "undefined" => buzzer = deviceCommands.buzzer
    /\ led # "undefined" => led = deviceCommands.led

\* A further SetCommand(buzzer, led) would change the program state.
WouldChange(buzzer, led) ==
    ENABLED (SetCommand(buzzer, led) /\ ProgramState' # ProgramState)

\* The answer and the effect of a call that changes nothing.
NoOpAnswer ==
    /\ last'.status = 200
    /\ last'.updated = FALSE
    /\ last'.body = NoBody
    /\ UNCHANGED <<deviceCommands, pendingCommands, commandListeners,
                   responses, nextId>>

\* C7: a SetCommand call whose provided fields all equal the current values
\* reports updated = false, enqueues nothing, answers no waiter and leaves
\* DeviceCommandState, the queue and the registry unchanged; and after any
\* SetCommand call, the same call again changes nothing.
C7_NoChangeIsNoOp ==
    \A buzzer \in JsValues, led \in JsValues :
        /\ AlreadyCurrent(buzzer, led)
              => ~ENABLED (SetCommand(buzzer, led) /\ ~NoOpAnswer)
        /\ ~ENABLED (SetCommand(buzzer, led) /\ WouldChange(buzzer, led)')

\* A no-op SetCommand has run with a command queued and the buzzer on.
C7_Witness ==
    /\ last.op = "SetCommand"
    /\ last.status = 200
    /\ last.updated = FALSE
    /\ pendingCommands # <<>>
    /\ deviceCommands.buzzer = "true"

\* C8: a SetCommand call that fails (status 400) leaves DeviceCommandState,
\* the pending queue and the registry as they were.
C8_RejectedCallChangesNothing ==
    [][(last'.op = "SetCommand" /\ last'.status = 400)
       => UNCHANGED <<deviceCommands, pendingCommands, commandListeners>>]_vars

\* C9: a long-poll request arriving while the queue is non-empty is answered
\* inside the handler with the oldest queued command, which leaves the queue;
\* the request is not registered; and a command that has been dequeued is
\* never sent to a client again.
C9_LongPollDequeuesOldest ==
    [][/\ (last'.op = "GetDeviceCommand" /\ pendingCommands # <<>>)
          => /\ last'.status = 200
             /\ last'.body = Body("immediate", Head(pendingCommands).id,
                                  Head(pendingCommands).commands)
             /\ pendingCommands' = Tail(pendingCommands)
             /\ UNCHANGED <<commandListeners, responses, nextReq>>
       /\ \A c \in CommandIds :
             delivered[c].dequeued >= 1
             => /\ delivered'[c] = delivered[c]
                /\ c \notin QueuedIds]_vars

\* A long-poll request dequeued the older of two queued commands.
C9_Witness ==
    /\ last.op = "GetDeviceCommand"
    /\ last.body.kind = "immediate"
    /\ last.body.commandId = 1
    /\ delivered[1].dequeued = 1
    /\ Len(pendingCommands) = 1

\* C10: a long-poll request with the immediate flag and an empty queue is
\* answered inside the handler with the current snapshot, consumes nothing
\* and registers no waiter; one without the flag and with an empty queue is
\* registered as a waiter and receives no response in that step.
C10_ImmediateOrPark ==
    [][\A q \in TimeoutQueries :
          /\ (pendingCommands = <<>> /\ GetDeviceCommand(TRUE, q))
             => /\ last'.body = Body("immediate", 0, deviceCommands)
                /\ UNCHANGED <<pendingCommands, commandListeners, responses,
                               nextReq>>
          /\ (pendingCommands = <<>> /\ GetDeviceCommand(FALSE, q))
             => /\ commandListeners' = Append(commandListeners, nextReq)
                /\ responses'[nextReq] = <<>>
                /\ last'.body = NoBody
                /\ last'.status = 0]_vars

\* What a call of /api/pollDeviceCommand answers and changes.
PollEffect ==
    /\ last'.status = 200
    /\ IF pendingCommands # <<>>
       THEN /\ last'.body = Body("newCommands", Head(pendingCommands).id,
                                 Head(pendingCommands).commands)
            /\ pendingCommands' = Tail(pendingCommands)
       ELSE /\ last'.body = Body("noNewCommands", 0, deviceCommands)
            /\ UNCHANGED pendingCommands
    /\ UNCHANGED <<deviceCommands, commandListeners, responses, timer, nextReq>>

\* C11: /api/pollDeviceCommand answers inside the handler and never parks;
\* with a non-empty queue it answers the oldest command with the newCommands
\* marker and removes exactly that one; with an empty queue it answers the
\* current DeviceCommandState with the noNewCommands marker and leaves the
\* queue as it was; the registry and DeviceCommandState never change.
C11_PollDequeuesAtMostOne ==
    ~ENABLED (PollDeviceCommand /\ ~PollEffect)

\* A poll took the older of two queued commands and left the newer one.
C11_Witness ==
    /\ last.op = "PollDeviceCommand"
    /\ last.body.kind = "newCommands"
    /\ last.body.commandId = 1
    /\ Len(pendingCommands) = 1

\* C12: when the connection of a parked request closes, the request leaves
\* the registry, so that no broadcast, timeout or shutdown later tries to
\* answer a closed connection and closed requests do not pile up.
C12_ClosedWaiterRemoved ==
    \A r \in Range(commandListeners) : timer[r] # "closed"

\* What gracefulShutdown answers and changes.
ShutdownEffect ==
    /\ running' = FALSE
    /\ \A r \in Unanswered(responses, commandListeners) :
          responses'[r] = <<"shutdown">>
    /\ Unanswered(responses, commandListeners) # {}
          => last'.body = Body("shutdown", 0, deviceCommands)
    /\ UNCHANGED <<deviceCommands, commandListeners>>

\* C13: gracefulShutdown answers every waiting request of the registry with
\* the shutdown marker and the current DeviceCommandState, in the step in
\* which the process exits.
C13_ShutdownAnswersWaiters ==
    ~ENABLED (GracefulShutdown /\ ~ShutdownEffect)

\* The process has exited and a parked request got the shutdown answer, with
\* the buzzer on in the snapshot.
C13_Witness ==
    /\ ~running
    /\ last.op = "GracefulShutdown"
    /\ last.body = Body("shutdown", 0, deviceCommands)
    /\ deviceCommands.buzzer = "true"
    /\ \E r \in Parked : responses[r] = <<"shutdown">>

\* What a call of /api/clearPendingCommands answers and changes.
ClearEffect ==
    /\ last'.status = 200
    /\ last'.count = Len(pendingCommands)
    /\ last'.body = NoBody
    /\ pendingCommands' = <<>>
    /\ commandListeners' = <<>>
    /\ UNCHANGED <<deviceCommands, responses>>

\* C14: /api/clearPendingCommands reports the number of commands that were
\* queued before the call, leaves the queue and the registry empty, sends no
\* response to any parked request and leaves DeviceCommandState unchanged.
C14_ClearReportsCount ==
    ~ENABLED (ClearPendingCommands /\ ~ClearEffect)

\* A clear has dropped two queued commands.
C14_Witness ==
    /\ last.op = "ClearPendingCommands"
    /\ last.count = 2
    /\ pendingCommands = <<>>
    /\ commandListeners = <<>>

\* C30: the commands taken from the queue by /api/pollDeviceCommand and by
\* the immediate branch of /api/getDeviceCommand leave it in the order in
\* which they were queued: the queue is in queueing order, and every command
\* that has been taken from it was queued before every command still in it.
C30_DequeuedInFifoOrder ==
    /\ \A i, j \in DOMAIN pendingCommands :
          i < j => pendingCommands[i].id < pendingCommands[j].id
    /\ \A c \in QueuedIds, d \in CommandIds :
          delivered[d].dequeued >= 1 => d < c

\* The first two commands have both been taken from the queue, the second by
\* a poll.
C30_Witness ==
    /\ delivered[1].dequeued = 1
    /\ delivered[2].dequeued = 1
    /\ last.op = "PollDeviceCommand"
    /\ last.body.commandId = 2

\* C29: a handler of the readings (it writes lastData) changes neither
\* deviceCommands nor the queue nor the listeners, and a handler of the
\* commands or a timeout (it writes last) changes neither latestData nor
\* changeThresholds.
C29_ComponentOwnership ==
    [][/\ lastData' # lastData
          => UNCHANGED <<deviceCommands, pendingCommands, commandListeners>>
       /\ last' # last
          => UNCHANGED <<latestData, changeThresholds>>]_vars

\* A command was just queued while a movement is stored under a changed
\* threshold and a submission was the last request for the readings:
\* handlers of both parts have run.
C29_Witness ==
    /\ Len(pendingCommands) = 1
    /\ last.op = "SetCommand"
    /\ lastData.op = "PostData"
    /\ latestData["movement"] # JsNull
    /\ changeThresholds["heartrate"] = 20

----------------------------------------------------------------------------
\* Properties of the Change Detector and the Sensor State Store (SpecData).

\* A body that carries the one field f.
Only(f, v) == [g \in DataFields |-> IF g = f THEN v ELSE Undefined]

NumbersTried == {0, 10, 20}

Unset == {Undefined, JsNull}

\* C15: for a numeric field with a stored value and a numeric new value, the
\* detector reports significant exactly when abs(newValue - oldValue) >=
\* threshold[field] with the threshold of that moment, and /api/data records
\* the value exactly then.
C15_ThresholdDecides ==
    \A f \in NumericFields, v \in NumbersTried :
        latestData[f] # JsNull
        => LET significant ==
                   Abs(v - latestData[f].value.num) >= changeThresholds[f]
           IN /\ hasDataChanged(f, Number(v), latestData[f].value) <=> significant
              /\ (ENABLED (PostData(Only(f, Number(v)))
                             /\ f \in DOMAIN lastData'.data)) <=> significant

\* With threshold 2 (20 tenths) and only the heart rate stored, a submission was answered
\* with no change: its heart rate was within the threshold.
C15_Witness ==
    /\ lastData.op = "PostData"
    /\ lastData.status = 200
    /\ DOMAIN lastData.data = {}
    /\ changeThresholds["heartrate"] = 20
    /\ latestData["heartrate"] # JsNull
    /\ latestData["movement"] = JsNull

\* C16: a valid submission that carries a field whose stored value is still
\* unset records that field, whatever the value and the thresholds.
C16_FirstObservationRecorded ==
    \A body \in Bodies, f \in DataFields :
        (latestData[f] = JsNull /\ body[f] # Undefined
            /\ validateSensorData(body) = {})
        => ~ENABLED (PostData(body)
                       /\ ~(/\ latestData'[f] = [value |-> body[f],
                                                 timestamp |-> ToISOString(now)]
                            /\ f \in DOMAIN lastData'.data))

\* The submission that ran last recorded heart rate 1 under threshold 2 (10
\* and 20 tenths): no stored number is 2 away from 1, so it was the first
\* observation.
C16_Witness ==
    /\ lastData.op = "PostData"
    /\ "heartrate" \in DOMAIN lastData.data
    /\ lastData.data["heartrate"].value = Number(10)
    /\ changeThresholds["heartrate"] = 20

\* C17: the detector returns not-significant whenever newValue is unset, for
\* every oldValue, an unset one included.
C17_UnsetNeverSignificant ==
    \A f \in DataFields, u \in Unset : ~hasDataChanged(f, u, OldValue(f))

\* C17, amended: for an unset newValue the detector returns significant
\* exactly when oldValue is unset too (oldValue is tested first); and a
\* submission whose field is unset never changes the stored entry of that
\* field.
C17_UnsetNewValueNeverRecorded ==
    \A f \in DataFields, u \in Unset :
        /\ hasDataChanged(f, u, OldValue(f)) <=> (latestData[f] = JsNull)
        /\ \A body \in Bodies :
              body[f] = u
              => ~ENABLED (PostData(body) /\ latestData'[f] # latestData[f])

\* One field is stored, the other is still unset, and a submission was just
\* rejected.
C17_Witness ==
    /\ lastData.op = "PostData"
    /\ lastData.status = 400
    /\ latestData["heartrate"] # JsNull
    /\ latestData["movement"] = JsNull

\* C18: POST /api/getData with lastUpdate = t answers exactly the fields
\* whose stored timestamp is strictly greater than t, with their stored
\* entries: no field that is unset or stamped at or before t, and every field
\* stamped after t.
C18_DeltaReturnsExactlyNewer ==
    \A t \in 0..MaxTime :
        LET newer == {f \in DataFields :
                        latestData[f] # JsNull /\ latestData[f].timestamp.num > t}
        IN ~ENABLED (PostGetData(ToISOString(t))
                       /\ lastData'.data # [f \in newer |-> latestData[f]])

\* A delta query returned the heart rate and left out the stored movement.
C18_Witness ==
    /\ lastData.op = "PostGetData"
    /\ ~lastData.fullUpdate
    /\ DOMAIN lastData.data = {"heartrate"}
    /\ latestData["movement"] # JsNull

\* C19: the answer to a delta query has fullUpdate true if and only if its
\* data mapping is empty.
C19_FullUpdateIffEmpty ==
    \A t \in 0..MaxTime :
        ~ENABLED (PostGetData(ToISOString(t))
                    /\ ~(/\ lastData'.status = 200
                         /\ lastData'.fullUpdate <=> (DOMAIN lastData'.data = {})))

\* A delta query was answered with an empty mapping and fullUpdate true while
\* a heart rate is stored.
C19_Witness ==
    /\ lastData.op = "PostGetData"
    /\ lastData.status = 200
    /\ lastData.fullUpdate
    /\ DOMAIN lastData.data = {}
    /\ latestData["heartrate"] # JsNull

\* C20: an incremental fetch of the dashboard, which sends the timestamp of
\* its previous non-empty answer as lastUpdate, gets every field that was
\* updated after that answer was generated.
C20_NoUpdateMissed ==
    ~ENABLED (FetchData(TRUE) /\ ~(updatedSince \subseteq DOMAIN lastData'.data))

----------------------------------------------------------------------------
\* Properties of POST /api/data (SpecData).

\* The fields a body provides.
Provided(body) == {f \in DataFields : body[f] # Undefined}

\* The validation rule of a field: heart rate a number >= 0, movement one of
\* the three states.
ViolatesRule(f, v) ==
    IF f = "movement"
    THEN v \notin {String("sitting"), String("standing"), String("walking")}
    ELSE v.type # "number" \/ v.num < 0

WellFormed(body) ==
    /\ Provided(body) # {}
    /\ \A f \in Provided(body) : ~ViolatesRule(f, body[f])

\* The rules of the Change Detector for a valid value v of field f: an unset
\* stored value first, then inequality for the categorical field and the
\* threshold for a numeric one.
Significant(f, v) ==
    IF latestData[f] = JsNull THEN TRUE
    ELSE IF f \in NumericFields
    THEN Abs(v.num - latestData[f].value.num) >= changeThresholds[f]
    ELSE v # latestData[f].value

Approved(body) == {f \in Provided(body) : Significant(f, body[f])}

\* C21: in every step, for every field, an entry that is set stays set and
\* its timestamp does not decrease; an entry that is null becomes set only by
\* a submission that reports the field as changed.
C21_TimestampsNeverDecrease ==
    [][\A f \in DataFields :
          /\ latestData[f] # JsNull
             => /\ latestData'[f] # JsNull
                /\ latestData'[f].timestamp.num >= latestData[f].timestamp.num
          /\ (latestData[f] = JsNull /\ latestData'[f] # JsNull)
             => /\ lastData'.op = "PostData"
                /\ f \in DOMAIN lastData'.data]_vars

\* The heart rate was stamped again, later than the movement, and the
\* submission that ran last left both entries as they were.
C21_Witness ==
    /\ lastData.op = "PostData"
    /\ lastData.status = 200
    /\ DOMAIN lastData.data = {}
    /\ latestData["heartrate"] # JsNull
    /\ latestData["movement"] # JsNull
    /\ latestData["heartrate"].timestamp.num > latestData["movement"].timestamp.num

SubmitEffect(body) ==
    /\ lastData'.status = 200
    /\ DOMAIN lastData'.data = Approved(body)
    /\ \A f \in DataFields :
          IF f \in Approved(body)
          THEN /\ latestData'[f] = [value |-> body[f],
                                    timestamp |-> ToISOString(now)]
               /\ lastData'.data[f] = latestData'[f]
          ELSE latestData'[f] = latestData[f]

\* C22: a valid submission writes exactly the fields the Change Detector
\* approves, each with the submitted value and the timestamp of the moment,
\* and returns exactly these entries; every other entry keeps its value and
\* its timestamp; when no field is approved the store is unchanged and the
\* returned mapping is empty.
C22_SubmitWritesApprovedOnly ==
    \A body \in Bodies :
        WellFormed(body) => ~ENABLED (PostData(body) /\ ~SubmitEffect(body))

\* The submission that ran last changed the movement alone, and the heart
\* rate keeps its older timestamp.
C22_Witness ==
    /\ lastData.op = "PostData"
    /\ DOMAIN lastData.data = {"movement"}
    /\ latestData["heartrate"] # JsNull
    /\ latestData["heartrate"].timestamp.num < latestData["movement"].timestamp.num

\* C23: a submission in which a provided field violates its rule is answered
\* 400 with the errors, and no entry of the store changes.
C23_InvalidSubmissionChangesNothing ==
    \A body \in StoreBodies :
        (\E f \in Provided(body) : ViolatesRule(f, body[f]))
        => ~ENABLED (PostData(body)
                       /\ ~(/\ lastData'.status = 400
                            /\ DOMAIN lastData'.data = {"errors"}
                            /\ latestData' = latestData))

\* A submission was rejected for its heart rate while both entries are
\* stored.
C23_Witness ==
    /\ lastData.op = "PostData"
    /\ lastData.status = 400
    /\ "errors" \in DOMAIN lastData.data
    /\ lastData.data["errors"] = {"heartrate"}
    /\ latestData["heartrate"] # JsNull
    /\ latestData["movement"] # JsNull

----------------------------------------------------------------------------
\* Properties of the thresholds and of the reading handlers (SpecStore).

\* The entries of a thresholds body whose key is a field with a threshold and
\* whose value is a number >= 0.
ValidEntries(newThresholds) ==
    {key \in DOMAIN newThresholds :
        /\ key \in ThresholdFields
        /\ newThresholds[key].type = "number"
        /\ newThresholds[key].num >= 0}

ThresholdsEffect(newThresholds) ==
    /\ lastData'.status = 200
    /\ lastData'.count = Cardinality(ValidEntries(newThresholds))
    /\ DOMAIN changeThresholds' = DOMAIN changeThresholds
    /\ \A key \in DOMAIN changeThresholds :
          changeThresholds'[key] =
              IF key \in ValidEntries(newThresholds)
              THEN newThresholds[key].num ELSE changeThresholds[key]

\* C24: POST /api/thresholds applies exactly the entries whose key is a field
\* with a threshold and whose value is a number >= 0, reports their count,
\* leaves every other threshold as it was and answers 200.
C24_ThresholdsAppliesValidEntries ==
    \A newThresholds \in ThresholdBodies :
        ~ENABLED (PostThresholds(newThresholds) /\ ~ThresholdsEffect(newThresholds))

\* C25: the threshold of every field is >= 0.
C25_ThresholdsNonNegative ==
    \A f \in ThresholdFields : changeThresholds[f] >= 0

\* The heart rate threshold was set to 0, and the call that ran last applied
\* no entry.
C25_Witness ==
    /\ lastData.op = "PostThresholds"
    /\ lastData.count = 0
    /\ changeThresholds["heartrate"] = 0

\* C26: a request for fields of which one is no field of the store is
\* answered 400 with the names that are not fields and the complete list of
\* the field names, with no reading, and the store is unchanged.
C26_UnknownFieldRejected ==
    \A fields \in FieldsInputs :
        (fields.isArray /\ \E i \in DOMAIN fields.items :
                              fields.items[i] \notin DataFields)
        => ~ENABLED (PostGetSpecificData(fields)
                       /\ ~(/\ lastData'.status = 400
                            /\ DOMAIN lastData'.data = {"invalidFields", "validFields"}
                            /\ lastData'.data["validFields"] = DataFields
                            /\ latestData' = latestData))

\* A request that named one unknown field was rejected while both entries
\* are stored.
C26_Witness ==
    /\ lastData.op = "PostGetSpecificData"
    /\ lastData.status = 400
    /\ "invalidFields" \in DOMAIN lastData.data
    /\ lastData.data["invalidFields"] = <<"bogus">>
    /\ latestData["heartrate"] # JsNull
    /\ latestData["movement"] # JsNull

\* GET /api/getData does not answer a movement entry with value m.
SnapshotLacks(m) ==
    ENABLED (GetGetData
               /\ ~(/\ lastData'.status = 200
                    /\ "movement" \in DOMAIN lastData'.data
                    /\ lastData'.data["movement"].value = m))

\* C27: after a submission of a valid movement m alone that is answered 200,
\* GET /api/getData answers movement.value = m, whatever the store held.
C27_MovementRoundTrip ==
    \A m \in validMovements :
        ~ENABLED (PostData(Only("movement", m))
                    /\ lastData'.status = 200
                    /\ SnapshotLacks(m)')

\* The snapshot answered movement standing next to a stored heart rate, the
\* movement being the entry written since the start.
C27_Witness ==
    /\ lastData.op = "GetGetData"
    /\ DOMAIN lastData.data = {"heartrate", "movement"}
    /\ lastData.data["movement"].value = String("standing")

\* C28: with a movement stored, a valid movement m is significant exactly
\* when it differs from the stored one, whatever changeThresholds.movement
\* is, and /api/data records it exactly then.
C28_MovementIgnoresThreshold ==
    \A m \in validMovements :
        latestData["movement"] # JsNull
        => LET differs == m # latestData["movement"].value
           IN /\ hasDataChanged("movement", m, latestData["movement"].value)
                    <=> differs
              /\ (ENABLED (PostData(Only("movement", m))
                             /\ "movement" \in DOMAIN lastData'.data)) <=> differs

\* With the movement threshold changed to 2 and no heart rate stored, a
\* submission was answered with no change: it carried the stored movement.
C28_Witness ==
    /\ lastData.op = "PostData"
    /\ lastData.status = 200
    /\ DOMAIN lastData.data = {}
    /\ changeThresholds["movement"] = 20
    /\ latestData["movement"] # JsNull
    /\ latestData["heartrate"] = JsNull

----------------------------------------------------------------------------
\* Further properties of the Command Queue & Dispatcher.

\* C31: commandListeners and pendingCommands are never both non-empty: a
\* request parks only while the queue is empty, and the step that queues a
\* command empties the registry.
C31_RegistryOrQueueEmpty ==
    commandListeners = <<>> \/ pendingCommands = <<>>

\* A command was queued while a request was parked: the request got the
\* command and the registry is empty.
C31_Witness ==
    /\ last.op = "SetCommand"
    /\ last.body.kind = "command"
    /\ Len(pendingCommands) = 1
    /\ commandListeners = <<>>
    /\ responses[1] = <<"command">>

\* A delta applied to a DeviceCommandState.
ApplyDelta(state, delta) ==
    [f \in Fields |-> IF f \in DOMAIN delta THEN delta[f] ELSE state[f]]

\* C32: with well-typed bodies and no clearPendingCommands, deviceCommands is
\* the initial {buzzer: false, led: false} with every delta ever queued
\* applied in queueing order: it starts as the initial state with nothing
\* queued, a step that queues a delta changes it by exactly that delta, and
\* no other step changes it.
C32_StateIsReplayOfDeltas ==
    /\ deviceCommands = [buzzer |-> "false", led |-> "false"]
    /\ pendingCommands = <<>>
    /\ [][IF Len(pendingCommands') > Len(pendingCommands)
          THEN LET newCommand == pendingCommands'[Len(pendingCommands')]
               IN /\ pendingCommands' = Append(pendingCommands, newCommand)
                  /\ deviceCommands' = ApplyDelta(deviceCommands,
                                                  newCommand.commands)
          ELSE deviceCommands' = deviceCommands]_vars

\* Two deltas were queued and both have left the queue; the second one
\* carried both fields.
C32_Witness ==
    /\ nextId = 3
    /\ pendingCommands = <<>>
    /\ delivered[1].dequeued = 1
    /\ delivered[2].dequeued = 1
    /\ last.body.commandId = 2
    /\ DOMAIN last.body.commands = {"buzzer", "led"}
    /\ deviceCommands = [buzzer |-> "false", led |-> "true"]

\* A commands mapping that is a delta: not empty, over buzzer and led, with
\* boolean values.
IsDelta(commands) ==
    /\ DOMAIN commands # {}
    /\ DOMAIN commands \subseteq Fields
    /\ \A f \in DOMAIN commands : TypeofBoolean(commands[f])

\* C34: every PendingCommand in the queue carries such a delta, and so does
\* every command a step hands to a poller, to an immediate long-poll or to
\* the parked requests.
C34_NoEmptyDelta ==
    /\ \A i \in DOMAIN pendingCommands : IsDelta(pendingCommands[i].commands)
    /\ last.body.commandId # 0 => IsDelta(last.body.commands)

\* Two commands are queued, the first with both fields and the second with
\* the led alone.
C34_Witness ==
    /\ Len(pendingCommands) = 2
    /\ DOMAIN pendingCommands[1].commands = {"buzzer", "led"}
    /\ DOMAIN pendingCommands[2].commands = {"led"}

\* C35: the dashboard's fetch of the device commands removes no
\* PendingCommand from the queue and registers no listener.
C35_DashboardFetchConsumesNothing ==
    ~ENABLED (FetchDeviceCommands
                /\ (\/ pendingCommands' # pendingCommands
                    \/ commandListeners' # commandListeners))

----------------------------------------------------------------------------
\* Drift of a numeric reading (SpecStore).

\* C33: after a submission answered 200 that provides the numeric field f
\* with value v, the stored value of f differs from v by strictly less than
\* the threshold of f.
C33_StoredWithinThreshold ==
    \A f \in NumericFields, body \in StoreBodies :
        body[f].type = "number"
        => ~ENABLED (PostData(body)
                       /\ lastData'.status = 200
                       /\ ~(Abs(latestData'[f].value.num - body[f].num)
                                < changeThresholds[f]))

\* C33, amended: after such a submission the stored value of f is v, or it
\* differs from v by strictly less than the threshold of f (with threshold 0
\* every value is stored, and the difference 0 is not less than 0).
C33_StoredEqualOrWithinThreshold ==
    \A f \in NumericFields, body \in StoreBodies :
        body[f].type = "number"
        => ~ENABLED (PostData(body)
                       /\ lastData'.status = 200
                       /\ ~(\/ latestData'[f].value = body[f]
                            \/ Abs(latestData'[f].value.num - body[f].num)
                                  < changeThresholds[f]))

\* Under threshold 0 a submission that carried a heart rate and the stored
\* movement recorded the heart rate alone.
C33_Witness ==
    /\ lastData.op = "PostData"
    /\ DOMAIN lastData.data = {"heartrate"}
    /\ changeThresholds["heartrate"] = 0
    /\ latestData["movement"] # JsNull
    /\ latestData["heartrate"].value = Number(0)

====
